---- MODULE Spec2Model ----
(***************************************************************************)
(* Model of bsfs-rust (src/src/lib.rs): the blockwise site frequency       *)
(* spectrum pipeline.  flatten_site, site_to_entry, bsfs_indices,          *)
(* n_haps_per_pop and bsfs_matrix are pure functions; each is an operator  *)
(* computed the way the Rust code computes it, and one action per function *)
(* applies it to the inputs chosen in Init and records what it returned.   *)
(*                                                                         *)
(* Population labels are Rust Strings; they are modelled as the tuples of  *)
(* their bytes so that String's Ord (bytewise lexicographic) is computed.  *)
(* A HashMap<usize, String> is a function (its contents) together with the *)
(* order in which that map instance iterates (iter_order), which the       *)
(* program does not control.                                               *)
(***************************************************************************)
EXTENDS Integers, Sequences, FiniteSets, TLC

VARIABLES calls, sample_map, iter_order, last, arg, ret

vars == <<calls, sample_map, iter_order, last, arg, ret>>

(* ------------------------------ bounds --------------------------------- *)

\* haplotype positions of a site, and sample-map keys 0..MaxHaps-1
MaxHaps == 3

\* sites of a block
MaxSites == 3

\* genotype calls (u32): 0 is ancestral, anything else derived
CallValues == {0, 1, 2}

\* "pop", "popA", "popB" as bytes
pop == <<112, 111, 112>>

popA == <<112, 111, 112, 65>>

popB == <<112, 111, 112, 66>>

Labels == {popA, popB}

(* ------------------------------ helpers -------------------------------- *)

\* the return value of a call: a value, or a panic (the thread unwinds)
Ok(v) == [ok |-> TRUE, val |-> v]

Panic == [ok |-> FALSE, val |-> <<>>]

RECURSIVE SeqSum(_)
SeqSum(s) == IF s = <<>> THEN 0 ELSE Head(s) + SeqSum(Tail(s))

\* String's Ord: bytewise lexicographic, a proper prefix is smaller
RECURSIVE StrLess(_, _)
StrLess(a, b) ==
    IF b = <<>> THEN FALSE
    ELSE IF a = <<>> THEN TRUE
    ELSE IF Head(a) < Head(b) THEN TRUE
    ELSE IF Head(a) > Head(b) THEN FALSE
    ELSE StrLess(Tail(a), Tail(b))

(* ---------------------------- flatten_site ----------------------------- *)

\* flatten_site with the individuals taken last to first
RECURSIVE flatten_site_rev(_)
flatten_site_rev(site) ==
    IF site = <<>> THEN <<>>
    ELSE flatten_site_rev(Tail(site)) \o Head(site)

\* site.into_iter().flatten().collect()
RECURSIVE flatten_site(_)
flatten_site(site) ==
    IF site = <<>> THEN <<>>
    ELSE Head(site) \o flatten_site(Tail(site))

(* ---------------------------- site_to_entry ---------------------------- *)

\* sample_map.values(): the values, in the map's iteration order
values(m, ord) == [i \in 1..Len(ord) |-> m[ord[i]]]

\* one insertion of a stable sort: x goes before the first greater element
RECURSIVE sort_insert(_, _)
sort_insert(x, s) ==
    IF s = <<>> THEN <<x>>
    ELSE IF StrLess(x, Head(s)) THEN <<x>> \o s
    ELSE <<Head(s)>> \o sort_insert(x, Tail(s))

\* Itertools::sorted(): collect and sort ascending by String's Ord
RECURSIVE sorted(_)
sorted(s) ==
    IF s = <<>> THEN <<>>
    ELSE sort_insert(s[Len(s)], sorted(SubSeq(s, 1, Len(s) - 1)))

\* Vec::dedup(): drop every element equal to the one before it
RECURSIVE dedup(_)
dedup(s) ==
    IF Len(s) <= 1 THEN s
    ELSE IF s[1] = s[2] THEN dedup(Tail(s))
    ELSE <<s[1]>> \o dedup(Tail(s))

\* let mut populations = Vec::from_iter(sample_map.values().sorted());
\* populations.dedup();
populations(m, ord) == dedup(sorted(values(m, ord)))

\* nton counting only the calls equal to 1 (val == 1 for val != 0)
RECURSIVE nton_only_ones(_, _, _, _)
nton_only_ones(site, m, population, idx) ==
    IF idx >= Len(site) THEN Ok(0)
    ELSE IF idx \notin DOMAIN m THEN Panic
    ELSE LET rest == nton_only_ones(site, m, population, idx + 1)
         IN  IF ~rest.ok THEN Panic
             ELSE IF m[idx] = population /\ site[idx + 1] = 1
                  THEN Ok(rest.val + 1)
                  ELSE Ok(rest.val)

\* nton passing over a position without a key (get(idx) == Some(population))
RECURSIVE nton_skip_unmapped(_, _, _, _)
nton_skip_unmapped(site, m, population, idx) ==
    IF idx >= Len(site) THEN Ok(0)
    ELSE LET rest == nton_skip_unmapped(site, m, population, idx + 1)
         IN  IF idx \in DOMAIN m /\ m[idx] = population /\ site[idx + 1] # 0
             THEN Ok(rest.val + 1)
             ELSE Ok(rest.val)

\* site.iter().enumerate().filter(get(idx).unwrap() == population)
\*     .filter(val != 0).count(), from position idx on; the first filter
\* unwraps the lookup of every position, so an absent key panics
RECURSIVE nton(_, _, _, _)
nton(site, m, population, idx) ==
    IF idx >= Len(site) THEN Ok(0)
    ELSE IF idx \notin DOMAIN m THEN Panic
    ELSE LET rest == nton(site, m, population, idx + 1)
         IN  IF ~rest.ok THEN Panic
             ELSE IF m[idx] = population /\ site[idx + 1] # 0
                  THEN Ok(rest.val + 1)
                  ELSE Ok(rest.val)

\* for population in populations { ...; ntons.push(*nton) }
RECURSIVE ntons_loop(_, _, _, _)
ntons_loop(site, m, pops, ntons) ==
    IF pops = <<>> THEN Ok(ntons)
    ELSE LET n == nton(site, m, Head(pops), 0)
         IN  IF ~n.ok THEN Panic
             ELSE ntons_loop(site, m, Tail(pops), Append(ntons, n.val))

\* site_to_entry rejecting an empty sample map
site_to_entry_checked(site, m, ord) ==
    IF DOMAIN m = {} THEN Panic
    ELSE ntons_loop(site, m, populations(m, ord), <<>>)

site_to_entry(site, m, ord) == ntons_loop(site, m, populations(m, ord), <<>>)

(* ----------------------------- bsfs_indices ---------------------------- *)

\* indices_collect putting each entry in front of the collected ones
RECURSIVE indices_collect_rev(_, _, _, _)
indices_collect_rev(sites, m, ord, indices) ==
    IF sites = <<>> THEN Ok(indices)
    ELSE LET e == site_to_entry(flatten_site(Head(sites)), m, ord)
         IN  IF ~e.ok THEN Panic
             ELSE indices_collect_rev(Tail(sites), m, ord, <<e.val>> \o indices)

\* calls.into_iter().map(flatten_site).map(site_to_entry).collect()
RECURSIVE indices_collect(_, _, _, _)
indices_collect(sites, m, ord, indices) ==
    IF sites = <<>> THEN Ok(indices)
    ELSE LET e == site_to_entry(flatten_site(Head(sites)), m, ord)
         IN  IF ~e.ok THEN Panic
             ELSE indices_collect(Tail(sites), m, ord, Append(indices, e.val))

bsfs_indices(block, m, ord) == indices_collect(block, m, ord, <<>>)

(* ---------------------------- n_haps_per_pop --------------------------- *)

\* entry_incr overwriting the count (counts.insert(pop, 1))
entry_incr_set_one(counts, p) ==
    [q \in DOMAIN counts \cup {p} |-> IF q = p THEN 1 ELSE counts[q]]

\* entry_incr starting a new population at 1 before adding (or_insert(1))
entry_incr_from_one(counts, p) ==
    [q \in DOMAIN counts \cup {p} |->
        IF q = p THEN (IF p \in DOMAIN counts THEN counts[p] ELSE 1) + 1
        ELSE counts[q]]

\* *counts.entry(pop).or_default() += 1
entry_incr(counts, p) ==
    [q \in DOMAIN counts \cup {p} |->
        IF q = p THEN (IF p \in DOMAIN counts THEN counts[p] ELSE 0) + 1
        ELSE counts[q]]

\* for individual in sample_map.keys() { ... }
RECURSIVE counts_loop(_, _, _)
counts_loop(m, keys, counts) ==
    IF keys = <<>> THEN counts
    ELSE IF Head(keys) \notin DOMAIN m THEN counts_loop(m, Tail(keys), counts)
    ELSE counts_loop(m, Tail(keys), entry_incr(counts, m[Head(keys)]))

n_haps_per_pop(m, ord) == counts_loop(m, ord, <<>>)

(* ----------------------------- bsfs_matrix ----------------------------- *)

\* the multi-indices of a dense array of the given shape
RECURSIVE IndexSpace(_)
IndexSpace(shape) ==
    IF shape = <<>> THEN {<<>>}
    ELSE {<<i>> \o e : i \in 0..(Head(shape) - 1), e \in IndexSpace(Tail(shape))}

\* ndarray zeros(shape)
zeros(shape) == [shape |-> shape, cells |-> [e \in IndexSpace(shape) |-> 0]]

\* let haps_per_pop = n_haps_per_pop(&sample_map);
\* let bsfs_matrix = zeros((&haps_per_pop[0], &haps_per_pop[1]));
\* The body stops there: the array is sized by the haplotype counts of the
\* first two populations, nothing is folded into it.  Indexing a population
\* the map does not have panics.
bsfs_matrix(block, m, ord) ==
    LET haps_per_pop == n_haps_per_pop(m, ord)
        pops == populations(m, ord)
    IN  IF Len(pops) < 2 THEN Panic
        ELSE Ok(zeros(<<haps_per_pop[pops[1]], haps_per_pop[pops[2]]>>))

(* ------------------------------- inputs -------------------------------- *)

Perms(S) ==
    {s \in [1..Cardinality(S) -> S] : \A i, j \in 1..Cardinality(S) : s[i] = s[j] => i = j}

\* one individual's ploidy vector of n calls
Vectors(n) == [1..n -> CallValues]

\* every site of exactly n haplotypes: individuals of ploidy >= 1
RECURSIVE SitesOfLen(_)
SitesOfLen(n) ==
    IF n = 0 THEN {<<>>}
    ELSE UNION {{<<v>> \o s : v \in Vectors(k), s \in SitesOfLen(n - k)} : k \in 1..n}

Sites == UNION {SitesOfLen(n) : n \in 0..MaxHaps}

\* every sample map over the keys 0..MaxHaps-1, partial ones included
SampleMaps == UNION {[K -> Labels] : K \in SUBSET (0..(MaxHaps - 1))}

\* tests::sample_map: 0..3 in popA, 4..7 in popB
fixture_sample_map == [p \in 0..7 |-> IF p <= 3 THEN popA ELSE popB]

\* three populations, one label a prefix of the others
three_pop_map == [p \in 0..7 |-> IF p <= 1 THEN popB ELSE IF p <= 4 THEN pop ELSE popA]

\* the sample maps of the block runs, each with an iteration order
BlockMaps ==
    { <<fixture_sample_map, <<0, 1, 2, 3, 4, 5, 6, 7>>>>,
      <<fixture_sample_map, <<5, 2, 7, 0, 3, 6, 1, 4>>>>,
      <<three_pop_map, <<6, 0, 3, 5, 1, 7, 2, 4>>>>,
      <<[p \in 0..6 |-> fixture_sample_map[p]], <<6, 5, 4, 3, 2, 1, 0>>>>,
      <<[p \in {} |-> popA], <<>>>> }

\* tests::block_calls
block_calls ==
    << <<<<0, 1>>, <<1, 0>>, <<0, 0>>, <<1, 1>>>>,
       <<<<1, 1>>, <<1, 1>>, <<1, 1>>, <<1, 1>>>>,
       <<<<0, 0>>, <<0, 1>>, <<0, 0>>, <<0, 0>>>> >>

\* tests::single_call_arr
single_call_arr == << <<<<0, 0>>, <<0, 1>>, <<0, 0>>, <<0, 1>>>> >>

\* the sites a block is drawn from: the fixtures' sites, a site with calls
\* above 1, a site of five individuals and a site of mixed ploidy
BlockSites ==
    { block_calls[1], block_calls[2], block_calls[3], single_call_arr[1],
      <<<<2, 0>>, <<0, 3>>, <<0, 0>>, <<7, 0>>>>,
      <<<<0, 1>>, <<1, 0>>, <<0, 0>>, <<1, 1>>, <<1, 0>>>>,
      <<<<1>>, <<0, 1, 1>>, <<0, 0, 0, 1>>>> }

Blocks == UNION {[1..n -> BlockSites] : n \in 0..MaxSites}

(* --------------------------- state machine ----------------------------- *)

\* one site against every small sample map and iteration order
InitSite ==
    /\ calls \in {<<s>> : s \in Sites}
    /\ sample_map \in SampleMaps
    /\ iter_order \in Perms(DOMAIN sample_map)

\* a block of fixture sites against the fixture sample maps
InitBlock ==
    /\ calls \in Blocks
    /\ \E mo \in BlockMaps : sample_map = mo[1] /\ iter_order = mo[2]

Init ==
    /\ InitSite \/ InitBlock
    /\ last = "none"
    /\ arg = 0
    /\ ret = Ok(<<>>)

\* Each run applies one operation to its inputs: flatten_site, bsfs_indices
\* and bsfs_matrix take their arguments by value, so the caller's block and
\* sample map are moved into the call.
Return(op, i, r) ==
    /\ last = "none"
    /\ last' = op
    /\ arg' = i
    /\ ret' = r
    /\ UNCHANGED <<calls, sample_map, iter_order>>

FlattenSite ==
    \E i \in 1..Len(calls) :
        Return("flatten_site", i, Ok(flatten_site(calls[i])))

SiteToEntry ==
    \E i \in 1..Len(calls) :
        Return("site_to_entry", i,
               site_to_entry(flatten_site(calls[i]), sample_map, iter_order))

BsfsIndices ==
    Return("bsfs_indices", 0, bsfs_indices(calls, sample_map, iter_order))

NHapsPerPop ==
    Return("n_haps_per_pop", 0, Ok(n_haps_per_pop(sample_map, iter_order)))

BsfsMatrix ==
    Return("bsfs_matrix", 0, bsfs_matrix(calls, sample_map, iter_order))

Next ==
    \/ FlattenSite
    \/ SiteToEntry
    \/ BsfsIndices
    \/ NHapsPerPop
    \/ BsfsMatrix

Spec == Init /\ [][Next]_vars

(* ------------------- what the results are compared to ------------------ *)

\* the flattened site the call arg was made on
FlatSite == flatten_site(calls[arg])

\* the distinct population labels of a sample map
LabelsOf(m) == {m[p] : p \in DOMAIN m}

\* the k-th label in ascending order: exactly k-1 labels are smaller
KthLabel(m, k) ==
    CHOOSE l \in LabelsOf(m) : Cardinality({x \in LabelsOf(m) : StrLess(x, l)}) = k - 1

\* the haplotype positions (sample-map keys) assigned to label l
HapsOf(m, l) == {p \in DOMAIN m : m[p] = l}

\* positions of the flat site that are in population l and carry a derived call
DerivedCount(site, m, l) ==
    Cardinality({p \in 0..(Len(site) - 1) : p \in DOMAIN m /\ m[p] = l /\ site[p + 1] # 0})

\* every haplotype position of the flat site has a key in the sample map
Covered(site, m) == \A p \in 0..(Len(site) - 1) : p \in DOMAIN m

\* the entry the specification gives a flat site
EntryOf(site, m) ==
    [k \in 1..Cardinality(LabelsOf(m)) |-> DerivedCount(site, m, KthLabel(m, k))]

\* number of haplotypes before individual j in the flattened site
RECURSIVE Offset(_, _)
Offset(site, j) == IF j <= 1 THEN 0 ELSE Offset(site, j - 1) + Len(site[j - 1])

\* sum of the values of a finite map
RECURSIVE MapSum(_)
MapSum(f) ==
    IF DOMAIN f = {} THEN 0
    ELSE LET x == CHOOSE x \in DOMAIN f : TRUE
         IN  f[x] + MapSum([y \in DOMAIN f \ {x} |-> f[y]])

(* -------------------------------- claims ------------------------------- *)

\* C1: for a non-empty sample map whose keys cover every position of the
\* flattened site, site_to_entry returns one count per distinct population
\* label, in ascending label order, element k being the number of positions
\* of the k-th label whose call is non-zero; any non-zero call counts once
\* (calls [0,0,0,1,0,0,0,1] under the fixture map give [1,1]).
C1_EntryCountsPerPopulation ==
    (last = "site_to_entry" /\ DOMAIN sample_map # {} /\ Covered(FlatSite, sample_map))
        => /\ ret.ok
           /\ Len(ret.val) = Cardinality(LabelsOf(sample_map))
           /\ \A k \in 1..Len(ret.val) :
                 ret.val[k] = DerivedCount(FlatSite, sample_map, KthLabel(sample_map, k))
           /\ (FlatSite = <<0, 0, 0, 1, 0, 0, 0, 1>> /\ sample_map = fixture_sample_map)
                 => ret.val = <<1, 1>>

C1_Witness ==
    /\ last = "site_to_entry"
    /\ calls = single_call_arr
    /\ sample_map = fixture_sample_map
    /\ ret = Ok(<<1, 1>>)

\* C2: bsfs_indices returns one entry per site of the block, in the order of
\* the sites: its i-th element is site_to_entry(flatten_site(block[i])); it
\* returns exactly when site_to_entry returns for every site (the scenario
\* block gives [(2,2), (4,4), (1,0)]).
C2_IndicesOnePerSiteInOrder ==
    last = "bsfs_indices"
        => LET e(i) == site_to_entry(flatten_site(calls[i]), sample_map, iter_order)
           IN  /\ ret.ok <=> \A i \in 1..Len(calls) : e(i).ok
               /\ ret.ok => /\ Len(ret.val) = Len(calls)
                            /\ \A i \in 1..Len(calls) : ret.val[i] = e(i).val
               /\ (calls = block_calls /\ sample_map = fixture_sample_map)
                     => ret = Ok(<<<<2, 2>>, <<4, 4>>, <<1, 0>>>>)

C2_Witness ==
    /\ last = "bsfs_indices"
    /\ calls = block_calls
    /\ sample_map = fixture_sample_map
    /\ ret = Ok(<<<<2, 2>>, <<4, 4>>, <<1, 0>>>>)

\* the shape matrix mode is specified to have: haplotypes of the k-th
\* population plus one, populations in ascending label order
MatrixShape(m) ==
    [k \in 1..Cardinality(LabelsOf(m)) |-> Cardinality(HapsOf(m, KthLabel(m, k))) + 1]

\* the sites of the block whose entry is e
SitesWithEntry(e) ==
    {i \in 1..Len(calls) : EntryOf(flatten_site(calls[i]), sample_map) = e}

BlockCovered == \A i \in 1..Len(calls) : Covered(flatten_site(calls[i]), sample_map)

\* the inputs matrix mode is stated for here: the two populations the code
\* sizes its array for, every haplotype position of every site mapped
TwoPopBlock ==
    /\ Cardinality(LabelsOf(sample_map)) = 2
    /\ BlockCovered

\* starting from a matrix, add one to the cell of each entry in turn
RECURSIVE Accumulate(_, _)
Accumulate(cells, entries) ==
    IF entries = <<>> THEN cells
    ELSE Accumulate([e \in DOMAIN cells |->
                        IF e = Head(entries) THEN cells[e] + 1 ELSE cells[e]],
                    Tail(entries))

\* C3: bsfs_matrix returns a dense matrix with one axis per population in
\* ascending label order, axis k of size haplotypes_in_population[k] + 1,
\* whose cell e holds the number of sites of the block with entry e (the
\* scenario block: shape 5x5, cells (2,2), (4,4), (1,0) equal to 1).
C3_MatrixCountsSitesPerEntry ==
    (last = "bsfs_matrix" /\ TwoPopBlock)
        => /\ ret.ok
           /\ ret.val.shape = MatrixShape(sample_map)
           /\ ret.val.cells =
                 [e \in IndexSpace(MatrixShape(sample_map)) |-> Cardinality(SitesWithEntry(e))]

\* C4 as stated: for a flattened site with a position that has no key in the
\* sample map, site_to_entry still returns the entry, the unmapped position
\* counted for no population.
C4_UnmappedPositionSkipped ==
    (last = "site_to_entry" /\ ~Covered(FlatSite, sample_map))
        => /\ ret.ok
           /\ ret.val = EntryOf(FlatSite, sample_map)

\* C4 amended: for a flattened site with a position that has no key in the
\* sample map, site_to_entry returns only if the sample map is empty (there
\* is no population to count for) and then returns the empty entry; with a
\* non-empty sample map it panics on the missing lookup and returns nothing.
C4_UnmappedPositionPanics ==
    (last = "site_to_entry" /\ ~Covered(FlatSite, sample_map))
        => /\ ret.ok <=> DOMAIN sample_map = {}
           /\ ret.ok => ret.val = <<>>

C4_Witness ==
    /\ last = "site_to_entry"
    /\ DOMAIN sample_map # {}
    /\ ~Covered(FlatSite, sample_map)
    /\ \E p \in 0..(Len(FlatSite) - 1) : p \in DOMAIN sample_map /\ FlatSite[p + 1] # 0
    /\ ret = Panic

\* C5 as stated: with an empty sample map, n_haps_per_pop, site_to_entry and
\* bsfs_matrix fail instead of returning an empty result.
C5_EmptyMapFails ==
    (DOMAIN sample_map = {} /\ last \in {"n_haps_per_pop", "site_to_entry", "bsfs_matrix"})
        => ~ret.ok

\* C5 amended: with an empty sample map nothing is rejected: n_haps_per_pop
\* returns the empty count map and site_to_entry returns the empty entry,
\* whatever the site.
C5_EmptyMapReturnsEmpty ==
    (DOMAIN sample_map = {} /\ last \in {"n_haps_per_pop", "site_to_entry"})
        => /\ ret.ok
           /\ DOMAIN ret.val = {}

C5_Witness ==
    /\ last = "site_to_entry"
    /\ DOMAIN sample_map = {}
    /\ \E p \in 1..Len(FlatSite) : FlatSite[p] # 0
    /\ ret = Ok(<<>>)

\* C6: the cells of bsfs_matrix(block, sample_map) sum to the number of
\* sites of the block.
C6_MatrixTotalIsBlockLength ==
    (last = "bsfs_matrix" /\ TwoPopBlock)
        => /\ ret.ok
           /\ MapSum(ret.val.cells) = Len(calls)

\* C7: whenever site_to_entry returns, coordinate k of the entry is between
\* 0 and n_haps_per_pop(sample_map)[population k], and the coordinates sum to
\* at most the number of haplotypes of the site.
C7_EntryWithinHaplotypeCounts ==
    (last = "site_to_entry" /\ ret.ok)
        => LET haps == n_haps_per_pop(sample_map, iter_order)
           IN  /\ Len(ret.val) = Cardinality(LabelsOf(sample_map))
               /\ \A k \in 1..Len(ret.val) :
                     /\ KthLabel(sample_map, k) \in DOMAIN haps
                     /\ 0 <= ret.val[k]
                     /\ ret.val[k] <= haps[KthLabel(sample_map, k)]
               /\ SeqSum(ret.val) <= Len(FlatSite)

C7_Witness ==
    /\ last = "site_to_entry"
    /\ ret.ok
    /\ Len(ret.val) = 2
    /\ ret.val[1] = 2
    /\ ret.val[1] = n_haps_per_pop(sample_map, iter_order)[KthLabel(sample_map, 1)]
    /\ ret.val[2] < n_haps_per_pop(sample_map, iter_order)[KthLabel(sample_map, 2)]

\* C8: flatten_site returns the individuals' call vectors concatenated in
\* individual order and, within an individual, in ploidy order: its length is
\* the sum of the vectors' lengths and call q of individual j is at position
\* (haplotypes before j) + q ([[0,0],[0,1],[0,0],[0,1]] gives
\* [0,0,0,1,0,0,0,1]).
C8_FlattenConcatenatesInOrder ==
    last = "flatten_site"
        => LET site == calls[arg]
           IN  /\ ret.ok
               /\ Len(ret.val) = Offset(site, Len(site) + 1)
               /\ \A j \in 1..Len(site) : \A q \in 1..Len(site[j]) :
                     ret.val[Offset(site, j) + q] = site[j][q]
               /\ site = single_call_arr[1] => ret.val = <<0, 0, 0, 1, 0, 0, 0, 1>>

C8_Witness ==
    /\ last = "flatten_site"
    /\ calls[arg] = <<<<1>>, <<0, 1, 1>>, <<0, 0, 0, 1>>>>
    /\ ret = Ok(<<1, 0, 1, 1, 0, 0, 0, 1>>)

\* C9: n_haps_per_pop returns a map whose keys are exactly the distinct
\* population labels of the sample map, the value of a label being the number
\* of sample-map keys assigned to it, so the values sum to the size of the
\* sample map, whatever order the map iterates in (the fixture map gives
\* {popA: 4, popB: 4}).
C9_CountsPerPopulation ==
    last = "n_haps_per_pop"
        => /\ ret.ok
           /\ DOMAIN ret.val = LabelsOf(sample_map)
           /\ \A l \in LabelsOf(sample_map) : ret.val[l] = Cardinality(HapsOf(sample_map, l))
           /\ MapSum(ret.val) = Cardinality(DOMAIN sample_map)
           /\ sample_map = fixture_sample_map => ret.val = (popA :> 4) @@ (popB :> 4)

C9_Witness ==
    /\ last = "n_haps_per_pop"
    /\ sample_map = three_pop_map
    /\ ret = Ok((pop :> 3) @@ (popA :> 3) @@ (popB :> 2))

\* C10: the matrix built from an all-zero matrix of the matrix-mode shape by
\* adding one, for each entry of bsfs_indices(block, sample_map) in turn, to
\* the cell at that entry equals bsfs_matrix(block, sample_map) cell for cell.
C10_MatrixEqualsAccumulatedIndices ==
    (last = "bsfs_matrix" /\ TwoPopBlock)
        => LET indices == bsfs_indices(calls, sample_map, iter_order)
           IN  /\ ret.ok
               /\ indices.ok
               /\ ret.val.cells =
                     Accumulate(zeros(MatrixShape(sample_map)).cells, indices.val)

====
